---- MODULE Spec2Model ----
(***************************************************************************)
(* Application ledger and batch processor of CareerCopilot-AI              *)
(* (src/application_engine.py, src/models.py).                             *)
(*                                                                         *)
(* The ledger is the two tables job_listings and job_applications.  Every  *)
(* SQL statement (a query, an INSERT with its commit) is one atomic step;  *)
(* the Python code between two statements is local to the caller and is    *)
(* folded into the step that precedes it.  Callers (an HTTP request, the   *)
(* scheduler) run as the processes Procs, each with its own local          *)
(* variables, exactly as two requests each run their own                   *)
(* process_job_batch frame over the shared database.                       *)
(*                                                                         *)
(* The model spans one calendar day on which the UTC date and the local    *)
(* date agree, so every row is dated "today".                              *)
(***************************************************************************)
EXTENDS Integers, Sequences, FiniteSets, TLC

\* ---------------------------------------------------------------- bounds
MaxJobs == 3           \* jobs handed to the engine over all calls
MaxPortalId == 3       \* portal job ids are 1..MaxPortalId
DailyLimit == 2        \* configured DAILY_APPLICATION_LIMIT of the engine
MaxRows == 2           \* application rows of the ledgers the duplicate check reads
MaxAppliedToday == 21  \* applied rows added to the ledger of the application's engine
MaxSkills == 2         \* length of a job's required_skills list
MaxExpLen == 3         \* length of a generated experience_required string
MaxStatsCalls == 3     \* update_daily_stats calls on the day
MaxStat == 1           \* the non-zero argument of an update_daily_stats call
MaxScraped == 2        \* jobs the searches of one pipeline run return
DAILY_LIMIT == 1       \* NAUKRI_DAILY_LIMIT of the daily apply script
MaxUrls == 3           \* job URLs are 1..MaxUrls
MaxFound == 2          \* jobs the searches of one run of the script return

\* the engine's settings: the default __init__ falls back to and the value
\* the application's configuration carries
DefaultDailyApplicationLimit == 20
ConfigDailyApplicationLimit == 30

\* ------------------------------------------------------ program constants
MatchThreshold == 70   \* MATCH_SCORE_THRESHOLD

Procs == {1, 2}
Candidates == {1}

\* job_data.get('portal_job_id') of a job without the key (None) or with ''
NoId == 0
PortalIds == 1..MaxPortalId
\* job_data as far as the engine reads it: the portal_job_id and the score
\* SkillMatcher.calculate_match_score gives the job's text.  The inputs are
\* every id (missing included) with a score at the threshold and one job
\* just below it.
CreateJobData == [portal_job_id : {NoId} \cup PortalIds, score : {MatchThreshold}]
JobData == CreateJobData \cup [portal_job_id : {1}, score : {MatchThreshold - 1}]

\* status values create_application is called with
Statuses == {"applied", "interview_received", "skipped"}

\* every status of JobApplication.status, and a second candidate, for the
\* ledgers the duplicate check is asked about
AllStatuses == Statuses \cup {"rejected", "error"}
AllCandidates == Candidates \cup {2}

LimitReason == "Daily application limit reached"
DuplicateReason == "Already applied to this job"
ThresholdReason == "Below match threshold"
ValueErrorReason == "portal_job_id is required to create an application"
SubmissionFailureReason == "submission failed"
IntegrityErrorReason == "IntegrityError: UNIQUE constraint failed: job_listings.portal_job_id"

VARIABLES
    listings,         \* job_listings: row id -> portal_job_id
    applications,     \* job_applications: row id -> [job_id, candidate_id, status]
    pc,               \* position of each caller
    op,               \* what each caller runs: "none", "batch", "create"
    candidate,        \* candidate_id argument of the running call
    status_arg,       \* status argument of a create_application call
    jobs,             \* jobs taken from the input list so far
    results,          \* the results list of process_job_batch
    remaining_today,  \* local counter of process_job_batch
    listing,          \* local `listing` of create_application (row id, 0 = None)
    raised,           \* exception a create_application call ended with ("" = none)
    submitted,        \* per job of the batch: what the submission executor did
    started_at,       \* number of application rows when the call started
    taken,            \* jobs handed to the engine so far
    daily_limit,      \* self.daily_limit of the engine
    job_data,         \* the job dictionary a caller holds and has evaluated
    daily_logs,       \* daily_application_logs: the rows dated today
    stats_call,       \* per caller: the update_daily_stats call under way
    stats_calls,      \* the arguments of the update_daily_stats calls made
    utc_today,        \* the date of datetime.utcnow(), as a day number
    local_today,      \* the date of date.today() at the same moment
    query,            \* the last call of a read-only method: its name and arguments
    answer,           \* what that call returned
    pipeline,         \* the NaukriAutoApplyPipeline run under way: its fields and locals
    script,           \* the naukri_daily_apply.main run under way: its locals
    apply_log,        \* data/naukri_daily_apply_log.json: the entry of the day
    attempts          \* what the portal saw: the job URLs opened and the outcomes

vars == <<listings, applications, pc, op, candidate, status_arg, jobs, results,
          remaining_today, listing, raised, submitted, started_at, taken,
          daily_limit, job_data, daily_logs, stats_call, stats_calls,
          utc_today, local_today, query, answer,
          pipeline, script, apply_log, attempts>>

\* the automation runs: the pipeline's and the daily script's state
runs == <<pipeline, script, apply_log, attempts>>

ledger == <<listings, applications>>

\* the engine's setting, the evaluated job dictionary and the record of the
\* read-only calls, untouched by the ledger writes
aux == <<daily_limit, job_data, daily_logs, stats_call, stats_calls,
         utc_today, local_today, query, answer, runs>>

\* the engine's limit and the clocks it reads
settings == <<daily_limit, utc_today, local_today>>

\* the callers' positions and locals
callers == <<pc, op, candidate, status_arg, jobs, results, remaining_today,
             listing, raised, submitted, started_at, taken, runs>>

\* the daily statistics and the calls that write them
stats == <<daily_logs, stats_call, stats_calls>>

NoQuery == [fn |-> "none"]

\* ------------------------------------------------------------ pure parts

Max(a, b) == IF a >= b THEN a ELSE b
Min(a, b) == IF a <= b THEN a ELSE b

\* get_daily_application_count: rows with status 'applied' whose
\* application_date falls on date.today()
get_daily_application_count(apps) ==
    Cardinality({i \in DOMAIN apps :
                    /\ apps[i].status = "applied"
                    /\ apps[i].application_date = local_today})

can_apply_today(apps) == get_daily_application_count(apps) < daily_limit

get_remaining_applications_todayMutant(apps) ==
    daily_limit - get_daily_application_count(apps)
get_remaining_applications_today(apps) ==
    Max(0, daily_limit - get_daily_application_count(apps))

\* the configuration the engine of the batch runs is built from, and the
\* Flask app.config loaded from config.Config
EngineConfig == [DAILY_APPLICATION_LIMIT |-> DailyLimit,
                 MATCH_SCORE_THRESHOLD |-> MatchThreshold]
AppConfig == [DAILY_APPLICATION_LIMIT |-> ConfigDailyApplicationLimit,
              MATCH_SCORE_THRESHOLD |-> MatchThreshold]

\* a configuration whose limit a batch exhausts with jobs to spare
TightConfig == [DAILY_APPLICATION_LIMIT |-> DailyLimit - 1,
                MATCH_SCORE_THRESHOLD |-> MatchThreshold]

\* _get_config_value on a dict-like config
get_config_value(config, key, default) ==
    IF key \in DOMAIN config THEN config[key] ELSE default

\* the analysis dict the matcher returns with the score of a job
Analysis(job) == <<"analysis", job.score>>

\* evaluate_job: decision on the matcher's score
evaluate_jobMutant(job) ==
    [decision |-> IF job.score > MatchThreshold THEN "apply" ELSE "skip",
     match_score |-> job.score,
     analysis |-> Analysis(job),
     passes_threshold |-> job.score >= MatchThreshold]
evaluate_job(job) ==
    [decision |-> IF job.score >= MatchThreshold THEN "apply" ELSE "skip",
     match_score |-> job.score,
     analysis |-> Analysis(job),
     passes_threshold |-> job.score >= MatchThreshold]

\* a result dictionary without the keys match_score and analysis
NoEvaluation == [match_score |-> -1, analysis |-> <<>>]

\* `not portal_job_id`
IsMissingMutant(portal_job_id) == FALSE
IsMissing(portal_job_id) == portal_job_id = NoId

\* JobListing.query.filter_by(portal_job_id=...).first(): row id or 0 (None)
FindListingMutant(ls, portal_job_id) == 0
FindListing(ls, portal_job_id) ==
    IF \E i \in DOMAIN ls : ls[i] = portal_job_id
    THEN CHOOSE i \in DOMAIN ls :
             /\ ls[i] = portal_job_id
             /\ \A k \in DOMAIN ls : ls[k] = portal_job_id => i <= k
    ELSE 0

\* unique=True on job_listings.portal_job_id
UniqueViolation(ls, portal_job_id) == \E i \in DOMAIN ls : ls[i] = portal_job_id

check_duplicate_applicationMutant(ls, apps, portal_job_id, candidate_id) == FALSE
check_duplicate_application(ls, apps, portal_job_id, candidate_id) ==
    IF IsMissing(portal_job_id) THEN FALSE
    ELSE \E i \in DOMAIN apps :
            /\ apps[i].job_id \in DOMAIN ls
            /\ ls[apps[i].job_id] = portal_job_id
            /\ apps[i].candidate_id = candidate_id
            /\ apps[i].status \in {"applied", "interview_received"}

\* the dictionaries process_job_batch appends to results
Disposition(job, status, reason, evaluation, application_id) ==
    [job |-> job, status |-> status, reason |-> reason,
     match_score |-> evaluation.match_score, analysis |-> evaluation.analysis,
     application_id |-> application_id]

LimitSkipMutant(res, job) == res
LimitSkip(res, job) ==
    Append(res, Disposition(job, "skipped", LimitReason, NoEvaluation, 0))

DuplicateSkip(res, job) ==
    Append(res, Disposition(job, "skipped", DuplicateReason, NoEvaluation, 0))

ThresholdSkip(res, job) ==
    Append(res, Disposition(job, "skipped", ThresholdReason, evaluate_job(job), 0))

ErrorResultMutant(res, job, reason) ==
    Append(res, Disposition(job, "applied", reason, NoEvaluation, 0))
ErrorResult(res, job, reason) ==
    Append(res, Disposition(job, "error", reason, NoEvaluation, 0))

AppliedResult(res, job, application_id) ==
    Append(res, Disposition(job, "applied", "", evaluate_job(job), application_id))

DecrementMutant(r) == r
Decrement(r) == r - 1

CurrentJob(p) == jobs[p][Len(jobs[p])]

\* ------------------------------------------------------------ the matcher

\* skills a job may list, descriptions a job may carry
JobSkills == {"Python", "kubernetes.", "cobol", "7"}
Descriptions == {"", "Test", "Python developer with Django"}

\* the part of self.all_candidate_skills the job skills above meet
all_candidate_skills == {"python", "django", "kubernetes"}

\* job_skill.lower().strip()
Lower(skill) ==
    CASE skill = "Python" -> "python"
      [] skill = "Django" -> "django"
      [] skill = "REST API" -> "rest api"
      [] OTHER -> skill

\* the fuzzy and keyword branches of _skill_similarity against the resume
\* of the source: int(max_similarity * 100)
FuzzySimilarity(skill) ==
    CASE skill = "kubernetes." -> 95
      [] skill \in {"REST API", "rest api"} -> 94
      [] skill = "cobol" -> 40
      [] skill = "7" -> 0

skill_similarity(job_skill) ==
    IF Lower(job_skill) \in all_candidate_skills
    THEN 100
    ELSE FuzzySimilarity(job_skill)

\* the entries of skill_keywords that occur in job_description.lower(), in
\* the order of the keyword list
keywords_in(description) ==
    CASE description = "Python developer with Django" -> <<"python", "django">>
      [] description =
            "Looking for Python developer with Django and REST API experience"
         -> <<"python", "django", "rest api">>
      [] OTHER -> <<>>

Range(seq) == {seq[i] : i \in DOMAIN seq}

\* list(set(...)): the elements once each, in some order
RECURSIVE SetToSeq(_)
SetToSeq(S) ==
    IF S = {} THEN <<>>
    ELSE LET x == CHOOSE x \in S : TRUE IN <<x>> \o SetToSeq(S \ {x})

\* _parse_job_description: the list it returns
parse_job_description(description, required_skills) ==
    IF description = ""
    THEN required_skills
    ELSE SetToSeq(Range(required_skills \o keywords_in(description)))

\* _parse_job_description: the caller's required_skills list after the call;
\* the keywords are appended to a list of its own
required_skills_afterMutant(description, required_skills) ==
    required_skills \o keywords_in(description)
required_skills_after(description, required_skills) == required_skills

DigitValue == [c \in {"0", "1", "2", "3", "4", "5", "6", "7", "8", "9"} |->
                 CASE c = "0" -> 0 [] c = "1" -> 1 [] c = "2" -> 2
                   [] c = "3" -> 3 [] c = "4" -> 4 [] c = "5" -> 5
                   [] c = "6" -> 6 [] c = "7" -> 7 [] c = "8" -> 8
                   [] c = "9" -> 9]

IsDigit(c) == c \in DOMAIN DigitValue

RECURSIVE DropNonDigits(_)
DropNonDigits(str) ==
    IF str = <<>> \/ IsDigit(Head(str)) THEN str ELSE DropNonDigits(Tail(str))

RECURSIVE TakeDigits(_)
TakeDigits(str) ==
    IF str = <<>> \/ ~IsDigit(Head(str)) THEN <<>>
    ELSE <<Head(str)>> \o TakeDigits(Tail(str))

\* re.findall(r'(\d+)', s)[0]: the leftmost longest run of digits, <<>> when
\* findall returns no match
first_years(str) == TakeDigits(DropNonDigits(str))

\* int() of a run of digits
RECURSIVE int(_)
int(digits) ==
    IF digits = <<>> THEN 0
    ELSE 10 * int(SubSeq(digits, 1, Len(digits) - 1))
         + DigitValue[digits[Len(digits)]]

\* the experience block of calculate_match_score
experience_bonusMutant(experience_required) ==
    IF first_years(experience_required) = <<>> THEN 0
    ELSE LET req_years == int(first_years(experience_required)) IN
         IF req_years <= 4 THEN 10
         ELSE IF req_years < 6 THEN 5
         ELSE -10
experience_bonus(experience_required) ==
    IF first_years(experience_required) = <<>> THEN 0
    ELSE LET req_years == int(first_years(experience_required)) IN
         IF req_years <= 4 THEN 10
         ELSE IF req_years <= 6 THEN 5
         ELSE -10

RECURSIVE SumSeq(_)
SumSeq(seq) == IF seq = <<>> THEN 0 ELSE Head(seq) + SumSeq(Tail(seq))

\* the skills of a list with their similarity
SkillEntries(job_skills) ==
    [i \in DOMAIN job_skills |->
        [skill |-> job_skills[i],
         match_percentage |-> skill_similarity(job_skills[i])]]

\* the lists matched_skills and missing_skills of the analysis
matched_skills(job_skills) ==
    LET Keep(e) == e.match_percentage >= 70
    IN  SelectSeq(SkillEntries(job_skills), Keep)

missing_skills(job_skills) ==
    LET Keep(e) == ~(e.match_percentage >= 70)
    IN  SelectSeq(SkillEntries(job_skills), Keep)

\* what calculate_match_score returns when no skill was extracted
UnparsedResultMutant ==
    [match_score |-> 0, matched_skills |-> <<>>, missing_skills |-> <<>>]
UnparsedResult ==
    [match_score |-> 60, matched_skills |-> <<>>, missing_skills |-> <<>>]

\* calculate_match_score: int(min(100, max(0, average_match + bonus))) with
\* average_match = sum(skill_scores) / len(skill_scores); the truncation of
\* int() is taken on the quotient, the bonus being a whole number
calculate_match_scoreMutant(description, required_skills, experience_required) ==
    LET job_skills == parse_job_description(description, required_skills)
        skill_scores == [i \in DOMAIN job_skills |->
                            skill_similarity(job_skills[i])]
        experience == experience_bonus(experience_required)
    IN  IF job_skills = <<>> THEN UnparsedResult
        ELSE [match_score |->
                  (SumSeq(skill_scores) + experience * Len(skill_scores))
                      \div Len(skill_scores),
              matched_skills |-> matched_skills(job_skills),
              missing_skills |-> missing_skills(job_skills)]
calculate_match_score(description, required_skills, experience_required) ==
    LET job_skills == parse_job_description(description, required_skills)
        skill_scores == [i \in DOMAIN job_skills |->
                            skill_similarity(job_skills[i])]
        experience == experience_bonus(experience_required)
    IN  IF job_skills = <<>> THEN UnparsedResult
        ELSE [match_score |->
                  Min(100, Max(0,
                      (SumSeq(skill_scores) + experience * Len(skill_scores))
                          \div Len(skill_scores))),
              matched_skills |-> matched_skills(job_skills),
              missing_skills |-> missing_skills(job_skills)]

\* evaluate_job on a job dictionary with its description, skills and
\* experience requirement
evaluate_job_data(job) ==
    LET scored == calculate_match_score(job.description, job.required_skills,
                                        job.experience_required)
    IN  [decision |-> IF scored.match_score >= MatchThreshold
                      THEN "apply" ELSE "skip",
         match_score |-> scored.match_score,
         analysis |-> [matched_skills |-> scored.matched_skills,
                       missing_skills |-> scored.missing_skills],
         passes_threshold |-> scored.match_score >= MatchThreshold]

\* the job dictionaries the matcher is given
ExpAlphabet == {"4", "5", "6", "7", "-"}
SixToEightYears == <<"6", "-", "8", " ", "y", "e", "a", "r", "s">>
FourYears == <<"4", " ", "y", "e", "a", "r", "s">>
ExperienceStrings ==
    UNION {[1..n -> ExpAlphabet] : n \in 0..MaxExpLen}
        \cup {SixToEightYears, FourYears}
SkillLists == UNION {[1..n -> JobSkills] : n \in 0..MaxSkills}

\* the job of test_exact_skill_match, and the same job with its skills
\* listed in lower case
ExactSkillMatchJob ==
    [description |->
        "Looking for Python developer with Django and REST API experience",
     required_skills |-> <<"Python", "Django", "REST API">>,
     experience_required |-> <<>>]
LowerCaseSkillsJob ==
    [ExactSkillMatchJob EXCEPT
        !.required_skills = <<"python", "django", "rest api">>]

MatcherJobData ==
    [description : Descriptions, required_skills : SkillLists,
     experience_required : ExperienceStrings]
        \cup {ExactSkillMatchJob, LowerCaseSkillsJob}

\* the job dictionaries evaluated next to ledger writes
SampleJobData ==
    [description : {"", "Python developer with Django"},
     required_skills : {<<>>, <<"Python", "cobol">>},
     experience_required : {SixToEightYears}]

\* a job dictionary without description, skills or experience
NoJobData == [description |-> "", required_skills |-> <<>>,
              experience_required |-> <<>>]

\* ------------------------------------------------------- daily statistics

\* the counters of a DailyApplicationLog row, the arguments of a call
StatsArgs == [jobs_scraped : {0, MaxStat}, jobs_matched : {0, MaxStat},
              jobs_applied : {0, MaxStat}]

\* stats.jobs_x += jobs_x on the row as it was loaded
AccumulateMutant(row, args) == args
Accumulate(row, args) ==
    [jobs_scraped |-> row.jobs_scraped + args.jobs_scraped,
     jobs_matched |-> row.jobs_matched + args.jobs_matched,
     jobs_applied |-> row.jobs_applied + args.jobs_applied]

\* no update_daily_stats call under way; `loaded` is the row the query
\* returned (<<>> for None), `raised` the exception the last call ended with
NoStatsCall == [pc |-> "idle", args |-> <<>>, loaded |-> <<>>, raised |-> ""]

\* ------------------------------------------ NaukriAutoApplyPipeline

\* MATCH_THRESHOLD of naukri_auto_apply_pipeline.py
MATCH_THRESHOLD == 70

\* the jobs a scrape returns, as far as the pipeline reads them: the
\* portal_job_id, the score the matcher gives the text, and whether the
\* job has a job_url.  Every id (missing included) at the threshold, and
\* one job below it, one without a URL and one above the threshold
ScrapedJobData ==
    [portal_job_id : {NoId} \cup PortalIds, score : {MATCH_THRESHOLD},
     job_url : {TRUE}]
    \cup {[portal_job_id |-> 1, score |-> MATCH_THRESHOLD - 1, job_url |-> TRUE],
          [portal_job_id |-> 2, score |-> MATCH_THRESHOLD, job_url |-> FALSE],
          [portal_job_id |-> MaxPortalId, score |-> MATCH_THRESHOLD + 1,
           job_url |-> TRUE]}

\* the values of result["status"] of NaukriAutoApplyAgent.apply_to_job_url
ApplyStatuses == {"applied_click", "applied_submitted", "popup_submit_failed",
                  "apply_button_not_found"}

\* `"applied" in status`
ContainsApplied(status) == status \in {"applied_click", "applied_submitted"}

\* the loop over all_jobs: the first job of every portal_job_id, jobs
\* without one dropped
RECURSIVE Deduplicate(_, _)
Deduplicate(all_jobs, seen) ==
    IF all_jobs = <<>> THEN <<>>
    ELSE LET j == Head(all_jobs)
             pid == j.portal_job_id IN
         IF ~IsMissing(pid) /\ pid \notin seen
         THEN <<j>> \o Deduplicate(Tail(all_jobs), seen \cup {pid})
         ELSE Deduplicate(Tail(all_jobs), seen)

\* the loop adding a JobListing for every unique job that has none
RECURSIVE Persist(_, _)
Persist(ls, unique_jobs) ==
    IF unique_jobs = <<>> THEN ls
    ELSE LET pid == Head(unique_jobs).portal_job_id IN
         Persist(IF IsMissing(pid) \/ FindListing(ls, pid) # 0 THEN ls
                 ELSE Append(ls, pid),
                 Tail(unique_jobs))

\* the loop building matching_jobs: jobs already applied to are left out
\* before scoring, the others are kept at or above the threshold
RECURSIVE Matching(_, _, _, _)
Matching(ls, apps, unique_jobs, candidate_id) ==
    IF unique_jobs = <<>> THEN <<>>
    ELSE LET job == Head(unique_jobs)
             rest == Matching(ls, apps, Tail(unique_jobs), candidate_id) IN
         IF check_duplicate_application(ls, apps, job.portal_job_id, candidate_id)
         THEN rest
         ELSE IF evaluate_job(job).match_score >= MATCH_THRESHOLD
              THEN <<job>> \o rest
              ELSE rest

\* list.sort(key=match_score, reverse=True): stable, highest score first
RECURSIVE InsertByScore(_, _)
InsertByScore(sorted, job) ==
    IF sorted = <<>> THEN <<job>>
    ELSE IF Head(sorted).score >= job.score
         THEN <<Head(sorted)>> \o InsertByScore(Tail(sorted), job)
         ELSE <<job>> \o sorted

RECURSIVE SortByScore(_)
SortByScore(matching_jobs) ==
    IF matching_jobs = <<>> THEN <<>>
    ELSE InsertByScore(SortByScore(SubSeq(matching_jobs, 1, Len(matching_jobs) - 1)),
                       matching_jobs[Len(matching_jobs)])

\* limit = min(remaining, self.daily_limit, len(matching_jobs))
apply_limitMutant(remaining, limit, matching_jobs) ==
    Min(limit, Len(matching_jobs))
apply_limit(remaining, limit, matching_jobs) ==
    Min(remaining, Min(limit, Len(matching_jobs)))

\* the event that ends a run: its type and the applied count of its summary
Event(type, applied_count) == [type |-> type, applied |-> applied_count]

\* no pipeline has run: `remaining` is -1 until a run reads it from the
\* engine, `created_from` the number of application rows when the run began
NoPipelineRun ==
    [pc |-> "idle", daily_limit |-> 0, dry_run |-> FALSE,
     unique_jobs |-> <<>>, remaining |-> -1, matched |-> 0, to_apply |-> <<>>,
     applied_count |-> 0, created_from |-> 0, event |-> Event("none", 0)]

\* ------------------------------------------------- naukri_daily_apply

\* job URLs: 0 is a missing or empty job_url, -1 is URL 1 with white space
\* around it
ScrapedUrls == {0, -1} \cup 1..MaxUrls

\* str.strip() of a job_url
strip(url) == IF url < 0 THEN -url ELSE url

\* the score below which main passes a job over: `if score < 10`
ShortlistScore == 10

\* the jobs the searches return, as far as main reads them: the job_url and
\* the score score_job gives the job.  Every URL at the score that is
\* shortlisted, one job below it and one above
FoundJobs ==
    [job_url : ScrapedUrls, score : {ShortlistScore}]
    \cup {[job_url |-> 1, score |-> ShortlistScore - 1],
          [job_url |-> MaxUrls, score |-> ShortlistScore + 1]}

\* the loop over `found`: jobs without a URL and jobs whose stripped URL
\* was seen are dropped
RECURSIVE UniqueByUrl(_, _)
UniqueByUrl(found, seen) ==
    IF found = <<>> THEN <<>>
    ELSE LET job == Head(found)
             url == strip(job.job_url) IN
         IF url = 0 \/ url \in seen THEN UniqueByUrl(Tail(found), seen)
         ELSE <<job>> \o UniqueByUrl(Tail(found), seen \cup {url})

\* the loop building `scored`: jobs attempted today and jobs scoring less
\* than 10 are dropped
RECURSIVE Scored(_, _)
Scored(found_jobs, attempted_today) ==
    IF found_jobs = <<>> THEN <<>>
    ELSE LET job == Head(found_jobs)
             rest == Scored(Tail(found_jobs), attempted_today) IN
         IF job.job_url = 0 \/ job.job_url \in attempted_today THEN rest
         ELSE IF job.score < ShortlistScore THEN rest
         ELSE <<job>> \o rest

\* remaining = max(0, DAILY_LIMIT - len(applied_today))
script_remaining(applied_today) == Max(0, DAILY_LIMIT - Cardinality(applied_today))

\* applied_now_urls: the URLs of the results with
\* r.get("status") == "applied_click" and a job_url
applied_now_urls(batch_results) ==
    {batch_results[i].job_url :
        i \in {k \in DOMAIN batch_results :
                  /\ batch_results[k].status = "applied_click"
                  /\ batch_results[k].job_url # 0}}

\* no run of main is under way
NoScriptRun == [pc |-> "idle", remaining |-> 0, job_urls |-> <<>>,
                shortlisted |-> <<>>, results |-> <<>>, message |-> ""]

\* ------------------------------------------------------------------ Init

\* ApplicationEngine(config) on an empty database
Construct(config) ==
    /\ daily_limit = get_config_value(config, "DAILY_APPLICATION_LIMIT",
                                      DefaultDailyApplicationLimit)
    /\ listings = <<>>
    /\ applications = <<>>
    /\ pc = [p \in Procs |-> "idle"]
    /\ op = [p \in Procs |-> "none"]
    /\ candidate = [p \in Procs |-> 1]
    /\ status_arg = [p \in Procs |-> "applied"]
    /\ jobs = [p \in Procs |-> <<>>]
    /\ results = [p \in Procs |-> <<>>]
    /\ remaining_today = [p \in Procs |-> 0]
    /\ listing = [p \in Procs |-> 0]
    /\ raised = [p \in Procs |-> ""]
    /\ submitted = [p \in Procs |-> <<>>]
    /\ started_at = [p \in Procs |-> 0]
    /\ taken = 0
    /\ query = NoQuery
    /\ answer = NoQuery
    /\ daily_logs = <<>>
    /\ stats_call = [p \in Procs |-> NoStatsCall]
    /\ stats_calls = <<>>
    /\ pipeline = NoPipelineRun
    /\ script = NoScriptRun
    /\ apply_log = [attempted |-> {}, applied |-> {}]
    /\ attempts = [url \in ScrapedUrls \ {0} |-> <<>>]

\* the local date is the UTC date
SameDate == utc_today = 0 /\ local_today = 0

\* the local date is the day before or after the UTC date: the hours
\* around midnight of a zone west or east of UTC
OtherDate == utc_today = 0 /\ local_today \in {-1, 1}

Init == Construct(EngineConfig) /\ job_data = NoJobData /\ SameDate

\* the engine run at any offset between the local clock and UTC
InitClock ==
    /\ Construct(EngineConfig)
    /\ job_data = NoJobData
    /\ SameDate \/ OtherDate

\* the engine as the application and the test suite build it:
\* ApplicationEngine(app.config)
InitApp == Construct(AppConfig) /\ job_data = NoJobData /\ SameDate

InitTight == Construct(TightConfig) /\ job_data = NoJobData /\ SameDate

\* the engine and a caller holding a job dictionary
InitMatcher ==
    Construct(EngineConfig) /\ job_data \in MatcherJobData /\ SameDate

InitSample ==
    Construct(EngineConfig) /\ job_data \in SampleJobData /\ SameDate

\* --------------------------------------------------- process_job_batch

\* results = []; remaining_today = self.get_remaining_applications_today()
StartBatch(p) ==
    /\ pc[p] \in {"idle", "done"}
    /\ taken < MaxJobs
    /\ \E c \in Candidates : candidate' = [candidate EXCEPT ![p] = c]
    /\ op' = [op EXCEPT ![p] = "batch"]
    /\ pc' = [pc EXCEPT ![p] = "loop"]
    /\ jobs' = [jobs EXCEPT ![p] = <<>>]
    /\ results' = [results EXCEPT ![p] = <<>>]
    /\ submitted' = [submitted EXCEPT ![p] = <<>>]
    /\ remaining_today' = [remaining_today EXCEPT
                             ![p] = get_remaining_applications_today(applications)]
    /\ started_at' = [started_at EXCEPT ![p] = Len(applications)]
    /\ listing' = [listing EXCEPT ![p] = 0]
    /\ raised' = [raised EXCEPT ![p] = ""]
    /\ status_arg' = [status_arg EXCEPT ![p] = "applied"]
    /\ UNCHANGED <<aux, ledger, taken>>

\* for job_data in jobs: the next job of the input; the capacity test
NextJob(p) ==
    /\ pc[p] = "loop"
    /\ op[p] = "batch"
    /\ taken < MaxJobs
    /\ taken' = taken + 1
    /\ \E job \in JobData :
        /\ jobs' = [jobs EXCEPT ![p] = Append(@, job)]
        /\ submitted' = [submitted EXCEPT ![p] = Append(@, "none")]
        /\ IF remaining_today[p] <= 0
           THEN /\ results' = [results EXCEPT ![p] = LimitSkip(@, job)]
                /\ pc' = pc
           ELSE /\ results' = results
                /\ pc' = [pc EXCEPT ![p] = "check_duplicate"]
    /\ UNCHANGED <<aux, ledger, op, candidate, status_arg, remaining_today, listing,
                   raised, started_at>>

\* the input list is exhausted: return results
ReturnResults(p) ==
    /\ pc[p] = "loop"
    /\ op[p] = "batch"
    /\ pc' = [pc EXCEPT ![p] = "done"]
    /\ UNCHANGED <<aux, ledger, op, candidate, status_arg, jobs, results,
                   remaining_today, listing, raised, submitted, started_at, taken>>

\* check_duplicate_application (one query), then evaluate_job (pure)
CheckDuplicate(p) ==
    /\ pc[p] = "check_duplicate"
    /\ LET job == CurrentJob(p) IN
       IF check_duplicate_application(listings, applications,
                                      job.portal_job_id, candidate[p])
       THEN /\ results' = [results EXCEPT ![p] = DuplicateSkip(@, job)]
            /\ pc' = [pc EXCEPT ![p] = "loop"]
       ELSE IF evaluate_job(job).decision = "apply"
       THEN /\ results' = results
            /\ pc' = [pc EXCEPT ![p] = "submit"]
       ELSE /\ results' = [results EXCEPT ![p] = ThresholdSkip(@, job)]
            /\ pc' = [pc EXCEPT ![p] = "loop"]
    /\ UNCHANGED <<aux, ledger, op, candidate, status_arg, jobs, remaining_today,
                   listing, raised, submitted, started_at, taken>>

\* _submit_application: the placeholder returns {"success": True, ...}
SubmitApplication(p) ==
    /\ pc[p] = "submit"
    /\ submitted' = [submitted EXCEPT ![p][Len(jobs[p])] = "success"]
    /\ pc' = [pc EXCEPT ![p] = "get_listing"]
    /\ UNCHANGED <<aux, ledger, op, candidate, status_arg, jobs, results,
                   remaining_today, listing, raised, started_at, taken>>

\* ---------------------------------------------------- create_application

\* a direct call create_application(job_data, candidate_id, ..., status)
\* with the job in J, the candidate in C and the status in S
StartCreateWith(p, J, C, S) ==
    /\ pc[p] \in {"idle", "done"}
    /\ taken' = taken + 1
    /\ \E job \in J, c \in C, s \in S :
        /\ jobs' = [jobs EXCEPT ![p] = <<job>>]
        /\ candidate' = [candidate EXCEPT ![p] = c]
        /\ status_arg' = [status_arg EXCEPT ![p] = s]
    /\ op' = [op EXCEPT ![p] = "create"]
    /\ pc' = [pc EXCEPT ![p] = "get_listing"]
    /\ results' = [results EXCEPT ![p] = <<>>]
    /\ submitted' = [submitted EXCEPT ![p] = <<"none">>]
    /\ remaining_today' = [remaining_today EXCEPT ![p] = 0]
    /\ started_at' = [started_at EXCEPT ![p] = Len(applications)]
    /\ listing' = [listing EXCEPT ![p] = 0]
    /\ raised' = [raised EXCEPT ![p] = ""]
    /\ UNCHANGED <<aux, ledger>>

StartCreate(p) ==
    /\ taken < MaxJobs
    /\ StartCreateWith(p, CreateJobData, Candidates, Statuses)

\* the same call for any candidate and any status
StartCreateAny(p) ==
    /\ taken < MaxRows
    /\ StartCreateWith(p, CreateJobData, AllCandidates, AllStatuses)

\* an application recorded as applied today for the one job of the feed
StartCreateApplied(p) ==
    /\ taken < MaxAppliedToday
    /\ StartCreateWith(p, [portal_job_id : {1}, score : {MatchThreshold}],
                       Candidates, {"applied"})

\* an exception leaves create_application: process_job_batch catches it and
\* appends an error result, a direct caller receives it
Raise(p, reason) ==
    IF op[p] = "batch"
    THEN /\ results' = [results EXCEPT ![p] = ErrorResult(@, CurrentJob(p), reason)]
         /\ pc' = [pc EXCEPT ![p] = "loop"]
         /\ raised' = raised
    ELSE /\ results' = results
         /\ pc' = [pc EXCEPT ![p] = "done"]
         /\ raised' = [raised EXCEPT ![p] = reason]

\* _get_or_create_job_listing up to the query
GetListing(p) ==
    /\ pc[p] = "get_listing"
    /\ LET job == CurrentJob(p) IN
       IF IsMissing(job.portal_job_id)
       THEN /\ Raise(p, ValueErrorReason)
            /\ listing' = listing
       ELSE LET found == FindListing(listings, job.portal_job_id) IN
            /\ listing' = [listing EXCEPT ![p] = found]
            /\ pc' = [pc EXCEPT ![p] = IF found # 0 THEN "add_application"
                                       ELSE "add_listing"]
            /\ UNCHANGED <<results, raised>>
    /\ UNCHANGED <<aux, ledger, op, candidate, status_arg, jobs, remaining_today,
                   submitted, started_at, taken>>

\* db.session.add(listing); db.session.commit()
AddListing(p) ==
    /\ pc[p] = "add_listing"
    /\ ~UniqueViolation(listings, CurrentJob(p).portal_job_id)
    /\ listings' = Append(listings, CurrentJob(p).portal_job_id)
    /\ listing' = [listing EXCEPT ![p] = Len(listings) + 1]
    /\ pc' = [pc EXCEPT ![p] = "add_application"]
    /\ UNCHANGED <<aux, applications, op, candidate, status_arg, jobs, results,
                   remaining_today, raised, submitted, started_at, taken>>

\* the commit fails on the unique portal_job_id: another caller inserted the
\* listing after this caller's query
AddListingConflict(p) ==
    /\ pc[p] = "add_listing"
    /\ UniqueViolation(listings, CurrentJob(p).portal_job_id)
    /\ Raise(p, IntegrityErrorReason)
    /\ UNCHANGED <<aux, ledger, op, candidate, status_arg, jobs, remaining_today,
                   listing, submitted, started_at, taken>>

\* db.session.add(application); db.session.commit(); in the batch then
\* remaining_today -= 1 and the applied result
AddApplication(p) ==
    /\ pc[p] = "add_application"
    /\ applications' = Append(applications,
           [job_id |-> listing[p], candidate_id |-> candidate[p],
            status |-> status_arg[p], application_date |-> utc_today])
    /\ IF op[p] = "batch"
       THEN /\ remaining_today' = [remaining_today EXCEPT ![p] = Decrement(@)]
            /\ results' = [results EXCEPT
                   ![p] = AppliedResult(@, CurrentJob(p), Len(applications) + 1)]
            /\ pc' = [pc EXCEPT ![p] = "loop"]
       ELSE /\ UNCHANGED <<remaining_today, results>>
            /\ pc' = [pc EXCEPT ![p] = "done"]
    /\ UNCHANGED <<aux, listings, op, candidate, status_arg, jobs, listing, raised,
                   submitted, started_at, taken>>

\* ------------------------------------------- the submission executor
\* _submit_application is a placeholder for the browser automation; the
\* executor it stands for reports success or failure, or raises.

\* the executor returns {"success": False, ...}; process_job_batch binds
\* the value to `result` and goes on to create_application
ExecutorFailure(p) ==
    /\ pc[p] = "submit"
    /\ submitted' = [submitted EXCEPT ![p][Len(jobs[p])] = "failure"]
    /\ pc' = [pc EXCEPT ![p] = "get_listing"]
    /\ UNCHANGED <<aux, ledger, op, candidate, status_arg, jobs, results,
                   remaining_today, listing, raised, started_at, taken>>

\* the executor raises; the except clause of process_job_batch catches it
ExecutorRaise(p) ==
    /\ pc[p] = "submit"
    /\ submitted' = [submitted EXCEPT ![p][Len(jobs[p])] = "raise"]
    /\ Raise(p, SubmissionFailureReason)
    /\ UNCHANGED <<aux, ledger, op, candidate, status_arg, jobs, remaining_today,
                   listing, started_at, taken>>

\* -------------------------------------------------------- specifications

CreateSteps(p) ==
    \/ GetListing(p)
    \/ AddListing(p)
    \/ AddApplication(p)

BatchSteps(p) ==
    \/ StartBatch(p)
    \/ NextJob(p)
    \/ ReturnResults(p)
    \/ CheckDuplicate(p)
    \/ SubmitApplication(p)

\* concurrent process_job_batch runs (an HTTP-triggered run overlapping a
\* timer-triggered one)
Next ==
    \E p \in Procs :
        \/ BatchSteps(p)
        \/ CreateSteps(p)
        \/ AddListingConflict(p)

Spec == Init /\ [][Next]_vars

\* concurrent direct callers of create_application
NextCreate ==
    \E p \in Procs :
        \/ StartCreate(p)
        \/ CreateSteps(p)
        \/ AddListingConflict(p)

SpecCreate == Init /\ [][NextCreate]_vars

\* one caller: any sequence of create_application calls and batch runs
NextLedger ==
    \/ BatchSteps(1)
    \/ StartCreate(1)
    \/ CreateSteps(1)

SpecLedger == Init /\ [][NextLedger]_vars

\* one caller running batches against an executor that can fail
NextExecutor ==
    \/ BatchSteps(1)
    \/ CreateSteps(1)
    \/ ExecutorFailure(1)
    \/ ExecutorRaise(1)

SpecExecutor == Init /\ [][NextExecutor]_vars

\* the same caller and executor with the tight limit
SpecTerminal == InitTight /\ [][NextExecutor]_vars

\* batches one after another, at any offset between the local clock and UTC
NextClock ==
    \/ BatchSteps(1)
    \/ CreateSteps(1)

SpecClock == InitClock /\ [][NextClock]_vars

\* ------------------------------------------------ external status updates
\* An application record is updated from outside the engine when its status
\* changes; the repository has no code for it.

\* the status of an applied record becomes interview_received or rejected,
\* between two runs
UpdateStatus ==
    /\ \A p \in Procs : pc[p] \in {"idle", "done"}
    /\ \E i \in DOMAIN applications, s \in {"interview_received", "rejected"} :
        /\ applications[i].status = "applied"
        /\ applications' = [applications EXCEPT ![i].status = s]
    /\ UNCHANGED <<aux, listings, callers>>

\* batches one after another with status updates in between
NextStatus ==
    \/ BatchSteps(1)
    \/ CreateSteps(1)
    \/ UpdateStatus

SpecStatus == Init /\ [][NextStatus]_vars

\* --------------------------------------------------- update_daily_stats

\* stats = DailyApplicationLog.query.filter(date == today).first()
QueryStats(p) ==
    /\ stats_call[p].pc = "idle"
    /\ Len(stats_calls) < MaxStatsCalls
    /\ \E args \in StatsArgs :
        /\ stats_call' = [stats_call EXCEPT ![p] =
               [pc |-> "loaded", args |-> args,
                loaded |-> IF daily_logs = <<>> THEN <<>>
                           ELSE <<daily_logs[1]>>,
                raised |-> ""]]
        /\ stats_calls' = Append(stats_calls, args)
    /\ UNCHANGED <<ledger, callers, settings, job_data, daily_logs,
                   query, answer>>

\* if not stats: add a row with the arguments; else add the arguments to the
\* loaded counters; db.session.commit(). The date column is unique: the
\* INSERT of a second row for the day raises IntegrityError
CommitStats(p) ==
    /\ stats_call[p].pc = "loaded"
    /\ LET call == stats_call[p] IN
       IF call.loaded = <<>>
       THEN IF daily_logs = <<>>
            THEN /\ daily_logs' = <<call.args>>
                 /\ stats_call' = [stats_call EXCEPT ![p] = NoStatsCall]
            ELSE /\ daily_logs' = daily_logs
                 /\ stats_call' = [stats_call EXCEPT ![p] =
                        [NoStatsCall EXCEPT !.raised = "IntegrityError"]]
       ELSE /\ daily_logs' = [daily_logs EXCEPT ![1] =
                                 Accumulate(call.loaded[1], call.args)]
            /\ stats_call' = [stats_call EXCEPT ![p] = NoStatsCall]
    /\ UNCHANGED <<ledger, callers, settings, job_data, stats_calls,
                   query, answer>>

StatsSteps(p) ==
    \/ QueryStats(p)
    \/ CommitStats(p)

\* update_daily_stats calls one after another
NextStats == StatsSteps(1)

SpecStats == Init /\ [][NextStats]_vars

\* update_daily_stats calls of two callers (the scheduler's timer and an
\* HTTP-triggered run) on the same day
NextStatsConcurrent == \E p \in Procs : StatsSteps(p)

SpecStatsConcurrent == Init /\ [][NextStatsConcurrent]_vars

\* ------------------------------------------------------ read-only calls

\* everything but query and answer
state == <<ledger, callers, settings, job_data, stats>>

\* no create_application call or batch is under way
Quiet == \A p \in Procs : pc[p] \in {"idle", "done"}

\* check_duplicate_application(portal_job_id, candidate_id) called between
\* two ledger writes; `at` is the number of application rows it read
CallCheckDuplicate ==
    /\ Quiet
    /\ \E portal_job_id \in {NoId} \cup PortalIds, c \in AllCandidates :
        /\ query' = [fn |-> "check_duplicate_application",
                     portal_job_id |-> portal_job_id, candidate_id |-> c,
                     passed |-> "portal_job_id", at |-> Len(applications)]
        /\ answer' = check_duplicate_application(listings, applications,
                                                 portal_job_id, c)
    /\ UNCHANGED state

\* the same call as the test suite makes it: the first argument is the id of
\* a JobListing row (job.id), not the row's portal_job_id
CallCheckDuplicateById ==
    /\ Quiet
    /\ \E id \in DOMAIN listings, c \in AllCandidates :
        /\ query' = [fn |-> "check_duplicate_application",
                     portal_job_id |-> id, candidate_id |-> c,
                     passed |-> "id", at |-> Len(applications)]
        /\ answer' = check_duplicate_application(listings, applications, id, c)
    /\ UNCHANGED state

\* can_apply_today() called between two ledger writes
CallCanApplyToday ==
    /\ Quiet
    /\ query' = [fn |-> "can_apply_today", at |-> Len(applications)]
    /\ answer' = can_apply_today(applications)
    /\ UNCHANGED state

\* get_remaining_applications_today() called between two ledger writes
CallGetRemaining ==
    /\ Quiet
    /\ query' = [fn |-> "get_remaining_applications_today",
                 at |-> Len(applications)]
    /\ answer' = get_remaining_applications_today(applications)
    /\ UNCHANGED state

\* evaluate_job(job_data, candidate_id) called between two ledger writes
CallEvaluateJob ==
    /\ Quiet
    /\ \E job \in JobData :
        /\ query' = [fn |-> "evaluate_job", job |-> job,
                     at |-> Len(applications)]
        /\ answer' = evaluate_job(job)
    /\ UNCHANGED state

\* evaluate_job(job_data, candidate_id) on the caller's job dictionary,
\* between two ledger writes
EvaluateJobData ==
    /\ Quiet
    /\ query' = [fn |-> "evaluate_job_data", job_data |-> job_data,
                 at |-> Len(applications)]
    /\ answer' = evaluate_job_data(job_data)
    /\ job_data' = [job_data EXCEPT !.required_skills =
                       required_skills_after(job_data.description, @)]
    /\ UNCHANGED <<ledger, callers, settings, stats>>

CapacityCalls ==
    \/ CallCanApplyToday
    \/ CallGetRemaining

\* one caller: create_application calls for any candidate and status, and
\* duplicate checks in between
NextDuplicate ==
    \/ StartCreateAny(1)
    \/ CreateSteps(1)
    \/ CallCheckDuplicate
    \/ CallCheckDuplicateById

SpecDuplicate == Init /\ [][NextDuplicate]_vars

\* the engine built from app.config: applications recorded one after another
\* and the capacity asked in between
NextAppConfig ==
    \/ StartCreateApplied(1)
    \/ CreateSteps(1)
    \/ CapacityCalls

SpecAppConfig == InitApp /\ [][NextAppConfig]_vars

\* one caller recording applications of any status, the capacity asked in
\* between
NextCapacity ==
    \/ StartCreate(1)
    \/ CreateSteps(1)
    \/ CapacityCalls

SpecCapacity == Init /\ [][NextCapacity]_vars

\* one caller running batches, evaluate_job called in between
NextEvaluate ==
    \/ BatchSteps(1)
    \/ CreateSteps(1)
    \/ CallEvaluateJob

SpecEvaluate == Init /\ [][NextEvaluate]_vars

\* the matcher applied to a job dictionary
NextMatcher == EvaluateJobData

SpecMatcher == InitMatcher /\ [][NextMatcher]_vars

\* one caller recording applications and evaluating its job dictionary in
\* between
NextSample ==
    \/ StartCreate(1)
    \/ CreateSteps(1)
    \/ EvaluateJobData

SpecSample == InitSample /\ [][NextSample]_vars

\* ------------------------------------------- NaukriAutoApplyPipeline.run

\* everything a pipeline run leaves alone
beside_pipeline == <<pc, op, candidate, status_arg, jobs, results, remaining_today,
                     listing, raised, submitted, started_at, taken, settings,
                     job_data, stats_call, query, answer, script, apply_log,
                     attempts>>

\* NaukriAutoApplyPipeline(daily_limit, dry_run=...).run up to the commit of
\* the scraped listings: the credentials check, the searches, the
\* deduplication and the new JobListing rows
PipelineScrape ==
    /\ pipeline.pc = "idle"
    /\ pc[1] \in {"idle", "done"}
    /\ \E limit \in 1..DailyLimit, dry_run \in BOOLEAN, credentials \in BOOLEAN,
          n \in 0..MaxScraped :
       \E all_jobs \in [1..n -> ScrapedJobData] :
        LET begun == [NoPipelineRun EXCEPT !.daily_limit = limit,
                                           !.dry_run = dry_run,
                                           !.created_from = Len(applications)] IN
        IF ~credentials
        THEN /\ pipeline' = [begun EXCEPT !.pc = "done",
                                          !.event = Event("error", 0)]
             /\ listings' = listings
        ELSE LET unique_jobs == Deduplicate(all_jobs, {}) IN
             /\ pipeline' = [begun EXCEPT !.pc = "evaluate",
                                          !.unique_jobs = unique_jobs]
             /\ listings' = Persist(listings, unique_jobs)
    /\ UNCHANGED <<applications, daily_logs, stats_calls, beside_pipeline>>

\* the candidate lookup, remaining = engine.get_remaining_applications_today(),
\* matching_jobs, the sort, limit and to_apply
PipelineEvaluate ==
    /\ pipeline.pc = "evaluate"
    /\ \E found \in BOOLEAN :
        IF ~found
        THEN pipeline' = [pipeline EXCEPT !.pc = "done", !.event = Event("error", 0),
                                          !.unique_jobs = <<>>]
        ELSE LET remaining == get_remaining_applications_today(applications)
                 matching_jobs ==
                     SortByScore(Matching(listings, applications,
                                          pipeline.unique_jobs, 1))
                 limit == apply_limit(remaining, pipeline.daily_limit,
                                      matching_jobs)
                 to_apply == SubSeq(matching_jobs, 1, limit) IN
             IF remaining <= 0
             THEN pipeline' = [pipeline EXCEPT !.pc = "done",
                                               !.remaining = remaining,
                                               !.event = Event("complete", 0)]
             ELSE IF to_apply = <<>>
             THEN pipeline' = [pipeline EXCEPT !.pc = "done",
                                               !.remaining = remaining,
                                               !.matched = Len(matching_jobs),
                                               !.event = Event("complete", 0)]
             ELSE pipeline' = [pipeline EXCEPT
                                   !.pc = IF pipeline.dry_run THEN "apply"
                                          ELSE "login",
                                   !.remaining = remaining,
                                   !.matched = Len(matching_jobs),
                                   !.to_apply = to_apply]
    /\ UNCHANGED <<ledger, daily_logs, stats_calls, beside_pipeline>>

\* agent.login(driver, ...) and the check of driver.current_url
PipelineLogin ==
    /\ pipeline.pc = "login"
    /\ \E logged_in \in BOOLEAN :
        pipeline' = IF logged_in THEN [pipeline EXCEPT !.pc = "apply"]
                    ELSE [pipeline EXCEPT !.pc = "done", !.event = Event("error", 0)]
    /\ UNCHANGED <<ledger, daily_logs, stats_calls, beside_pipeline>>

\* engine.create_application(job, candidate.id, ...) of a sequential caller:
\* the listing is looked up or added, the application row appended
CreatedListings(ls, job) ==
    IF FindListing(ls, job.portal_job_id) # 0 THEN ls
    ELSE Append(ls, job.portal_job_id)

CreatedApplication(ls, job, candidate_id) ==
    [job_id |-> FindListing(CreatedListings(ls, job), job.portal_job_id),
     candidate_id |-> candidate_id, status |-> "applied",
     application_date |-> utc_today]

\* what agent.apply_to_job_url does in one round of the loop: it is not
\* called in a dry run or for a job without job_url; otherwise it returns
\* a status or raises
AgentOutcomes(dry_run, job) ==
    IF dry_run \/ ~job.job_url THEN {"not called"}
    ELSE ApplyStatuses \cup {"raise"}

\* one round of the loop over to_apply: in a dry run the application is
\* recorded; otherwise a job without job_url is passed over, the agent
\* opens the URL, and the application is recorded when the status the
\* agent returns contains "applied"; an exception of the agent is caught
PipelineApply ==
    /\ pipeline.pc = "apply"
    /\ pipeline.to_apply # <<>>
    /\ LET job == Head(pipeline.to_apply) IN
       \E outcome \in AgentOutcomes(pipeline.dry_run, job) :
        LET recorded == \/ pipeline.dry_run
                        \/ job.job_url /\ ContainsApplied(outcome) IN
        /\ listings' = IF recorded THEN CreatedListings(listings, job)
                       ELSE listings
        /\ applications' = IF recorded
                           THEN Append(applications,
                                       CreatedApplication(listings, job, 1))
                           ELSE applications
        /\ pipeline' = [pipeline EXCEPT
               !.to_apply = Tail(@),
               !.applied_count = IF recorded THEN @ + 1 ELSE @]
    /\ UNCHANGED <<daily_logs, stats_calls, beside_pipeline>>

\* engine.update_daily_stats(...) and the 'complete' event with the summary
PipelineFinalize ==
    /\ pipeline.pc = "apply"
    /\ pipeline.to_apply = <<>>
    /\ LET args == [jobs_scraped |-> Len(pipeline.unique_jobs),
                    jobs_matched |-> pipeline.matched,
                    jobs_applied |-> pipeline.applied_count] IN
        /\ daily_logs' = IF daily_logs = <<>> THEN <<args>>
                         ELSE [daily_logs EXCEPT ![1] = Accumulate(@, args)]
        /\ stats_calls' = Append(stats_calls, args)
    /\ pipeline' = [pipeline EXCEPT
           !.pc = "done", !.unique_jobs = <<>>,
           !.event = Event("complete", pipeline.applied_count)]
    /\ UNCHANGED <<ledger, beside_pipeline>>

\* an application for one of two jobs recorded earlier in the day, applied
\* or skipped, while the rows are fewer than the engine's limit
PriorApplication ==
    /\ pipeline.pc = "idle"
    /\ Len(applications) < DailyLimit
    /\ StartCreateWith(1, [portal_job_id : {1, 2}, score : {MatchThreshold}],
                       Candidates, {"applied", "skipped"})

\* the rest of such a create_application call
PriorCreateSteps ==
    /\ pipeline.pc = "idle"
    /\ CreateSteps(1)

\* one pipeline run on a day on which applications were recorded before it
NextPipeline ==
    \/ PriorApplication
    \/ PriorCreateSteps
    \/ PipelineScrape
    \/ PipelineEvaluate
    \/ PipelineLogin
    \/ PipelineApply
    \/ PipelineFinalize

SpecPipeline == Init /\ [][NextPipeline]_vars

\* ---------------------------------------------- naukri_daily_apply.main

\* everything a run of the script leaves alone
beside_script == <<ledger, pc, op, candidate, status_arg, jobs, results,
                   remaining_today, listing, raised, submitted, started_at,
                   taken, settings, job_data, stats, query, answer, pipeline>>

\* main up to the call of batch_apply: the day's entry of the log is
\* loaded; with no capacity left the run ends; otherwise the searches, the
\* scoring, the sort and the shortlist of `remaining` jobs
ScriptShortlist ==
    /\ script.pc \in {"idle", "done"}
    /\ LET attempted_today == apply_log.attempted
           applied_today == apply_log.applied
           remaining == script_remaining(applied_today) IN
       IF remaining = 0
       THEN script' = [NoScriptRun EXCEPT !.pc = "done",
                                          !.message = "Daily limit reached"]
       ELSE \E n \in 0..MaxFound : \E found \in [1..n -> FoundJobs] :
            LET scored == SortByScore(Scored(UniqueByUrl(found, {}),
                                             attempted_today))
                shortlist == SubSeq(scored, 1, Min(remaining, Len(scored)))
                job_urls == [i \in DOMAIN shortlist |-> shortlist[i].job_url] IN
            script' = [NoScriptRun EXCEPT !.pc = "batch",
                                          !.remaining = remaining,
                                          !.job_urls = job_urls,
                                          !.shortlisted = job_urls]
    /\ UNCHANGED <<apply_log, attempts, beside_script>>

\* one round of the loop of batch_apply: apply_to_job_url opens the URL and
\* returns a status, or raises and the result has the status "error"
BatchApplyUrl ==
    /\ script.pc = "batch"
    /\ script.job_urls # <<>>
    /\ LET url == Head(script.job_urls) IN
       \E status \in ApplyStatuses \cup {"error"} :
        /\ attempts' = [attempts EXCEPT ![url] = Append(@, status)]
        /\ script' = [script EXCEPT
               !.job_urls = Tail(@),
               !.results = Append(@, [status |-> status, job_url |-> url])]
    /\ UNCHANGED <<apply_log, beside_script>>

\* main after batch_apply: the attempted and the applied URLs are merged
\* into the day's entry and the log is saved
SaveLog ==
    /\ script.pc = "batch"
    /\ script.job_urls = <<>>
    /\ LET attempted_now_urls == Range(script.shortlisted) \ {0} IN
       apply_log' = [attempted |-> apply_log.attempted \cup attempted_now_urls,
                     applied |-> apply_log.applied
                                     \cup applied_now_urls(script.results)]
    /\ script' = [script EXCEPT !.pc = "done"]
    /\ UNCHANGED <<attempts, beside_script>>

\* runs of the script one after another on one date
NextScript ==
    \/ ScriptShortlist
    \/ BatchApplyUrl
    \/ SaveLog

SpecScript == Init /\ [][NextScript]_vars

\* ------------------------------------------------------------ properties

\* application rows of one portal job and candidate with a status in S
RowsFor(portal_job_id, candidate_id, S) ==
    {i \in DOMAIN applications :
        /\ applications[i].job_id \in DOMAIN listings
        /\ listings[applications[i].job_id] = portal_job_id
        /\ applications[i].candidate_id = candidate_id
        /\ applications[i].status \in S}

\* the batch of p emitted 'applied' for the portal job
EmitsApplied(p, portal_job_id) ==
    /\ op[p] = "batch"
    /\ \E i \in DOMAIN results[p] :
        /\ results[p][i].status = "applied"
        /\ results[p][i].job.portal_job_id = portal_job_id

\* remaining capacity of the ledger as it was when the call of p started
CapacityAtStart(p) ==
    Max(0, DailyLimit - Cardinality({i \in 1..started_at[p] :
                                        applications[i].status = "applied"}))

\* the candidate of p held an active application for the job when p started
AppliedAtStart(p, portal_job_id) ==
    \E i \in 1..started_at[p] :
        /\ applications[i].job_id \in DOMAIN listings
        /\ listings[applications[i].job_id] = portal_job_id
        /\ applications[i].candidate_id = candidate[p]
        /\ applications[i].status \in {"applied", "interview_received"}

AppliedBefore(p, j) ==
    Cardinality({k \in 1..(j - 1) : results[p][k].status = "applied"})

\* C1: for one portal job and candidate, at most one of the concurrent batch
\* runs emits disposition 'applied' and at most one row with status 'applied'
\* exists for the pair.
C1_DuplicateCheckAtomic ==
    \A portal_job_id \in PortalIds, c \in Candidates :
        /\ Cardinality({p \in Procs : candidate[p] = c
                                      /\ EmitsApplied(p, portal_job_id)}) <= 1
        /\ Cardinality(RowsFor(portal_job_id, c, {"applied"})) <= 1

\* C2: under any interleaving of batch runs the number of rows with status
\* 'applied' dated today never exceeds daily_limit.
C2_DailyCapUnderConcurrency ==
    get_daily_application_count(applications) <= DailyLimit

\* C3: a process_job_batch call that returns yields exactly one disposition
\* per input job, in input order, each with status applied, skipped or error.
C3_OneDispositionPerJob ==
    \A p \in Procs :
        (op[p] = "batch" /\ pc[p] = "done") =>
            /\ Len(results[p]) = Len(jobs[p])
            /\ \A i \in DOMAIN jobs[p] :
                /\ results[p][i].job = jobs[p][i]
                /\ results[p][i].status \in {"applied", "skipped", "error"}

C3_Witness ==
    \E p \in Procs :
        /\ op[p] = "batch"
        /\ pc[p] = "done"
        /\ Len(jobs[p]) = 3
        /\ {results[p][i].status : i \in DOMAIN results[p]}
               = {"applied", "skipped", "error"}

\* what C4 assumes of a finished run: every job passes the threshold, the
\* portal_job_ids are present and pairwise distinct, no job was applied to
\* before and every submission succeeded
C4_Precondition(p) ==
    /\ op[p] = "batch"
    /\ pc[p] = "done"
    /\ \A i \in DOMAIN jobs[p] :
        /\ jobs[p][i].score >= MatchThreshold
        /\ jobs[p][i].portal_job_id # NoId
        /\ \A k \in DOMAIN jobs[p] :
               jobs[p][k].portal_job_id = jobs[p][i].portal_job_id => k = i
        /\ ~AppliedAtStart(p, jobs[p][i].portal_job_id)
        /\ submitted[p][i] \in {"none", "success"}

\* C4: in a single run of n such jobs with capacity R at batch start, the
\* first min(n, R) dispositions are 'applied' and the others are 'skipped'
\* with the daily-limit reason.
C4_AppliesUpToCapacity ==
    \A p \in Procs :
        C4_Precondition(p) =>
            LET n == Len(jobs[p])
                m == Min(n, CapacityAtStart(p))
            IN /\ Len(results[p]) = n
               /\ \A i \in 1..n :
                    IF i <= m
                    THEN results[p][i].status = "applied"
                    ELSE /\ results[p][i].status = "skipped"
                         /\ results[p][i].reason = LimitReason

C4_Witness ==
    \E p \in Procs :
        /\ C4_Precondition(p)
        /\ CapacityAtStart(p) >= 1
        /\ Len(jobs[p]) > CapacityAtStart(p)

\* two occurrences i < j of one portal job in the batch of p, the first
\* of which ended 'applied'
C5_Occurrences(p, i, j) ==
    /\ op[p] = "batch"
    /\ i \in DOMAIN results[p]
    /\ j \in DOMAIN results[p]
    /\ i < j
    /\ jobs[p][i].portal_job_id = jobs[p][j].portal_job_id
    /\ results[p][i].status = "applied"

\* C5 as stated: the second occurrence of a job whose first occurrence was
\* applied is skipped with the already-applied reason, and only one
\* application row exists for the job and candidate.
C5_SecondOccurrenceAlreadyApplied ==
    \A p \in Procs : \A i, j \in DOMAIN results[p] :
        C5_Occurrences(p, i, j) =>
            /\ results[p][j].status = "skipped"
            /\ results[p][j].reason = DuplicateReason
            /\ Cardinality(RowsFor(jobs[p][i].portal_job_id, candidate[p],
                                   AllStatuses)) = 1

\* C5 amended: the second occurrence is skipped, with the already-applied
\* reason when the run still has capacity on reaching it and with the
\* daily-limit reason otherwise, and the run adds one row for the job.
C5_SecondOccurrenceSkipped ==
    \A p \in Procs : \A i, j \in DOMAIN results[p] :
        C5_Occurrences(p, i, j) =>
            /\ results[p][j].status = "skipped"
            /\ results[p][j].reason =
                   IF CapacityAtStart(p) - AppliedBefore(p, j) > 0
                   THEN DuplicateReason ELSE LimitReason
            /\ Cardinality({r \in RowsFor(jobs[p][i].portal_job_id,
                                          candidate[p], AllStatuses) :
                               r > started_at[p]}) = 1

C5_Witness ==
    \E p \in Procs : \E i, j \in DOMAIN results[p] :
        /\ C5_Occurrences(p, i, j)
        /\ results[p][j].reason = DuplicateReason

\* the step of p in which the submission or the record creation fails
C6_Fails(p) ==
    /\ op[p] = "batch"
    /\ \/ /\ pc[p] = "submit"
          /\ submitted'[p][Len(jobs[p])] = "raise"
       \/ /\ pc[p] = "get_listing"
          /\ CurrentJob(p).portal_job_id = NoId
          /\ pc'[p] # "get_listing"

C8_MissingIdRejected ==
    [][\A p \in Procs :
        (/\ op[p] = "create"
         /\ pc[p] = "get_listing"
         /\ CurrentJob(p).portal_job_id = NoId
         /\ pc'[p] # "get_listing") =>
            /\ raised'[p] = ValueErrorReason
            /\ pc'[p] = "done"
            /\ listings' = listings
            /\ applications' = applications]_vars

C8_Witness ==
    \E p \in Procs :
        /\ op[p] = "create"
        /\ pc[p] = "done"
        /\ jobs[p][1].portal_job_id = NoId
        /\ raised[p] = ValueErrorReason
        /\ Len(applications) = started_at[p]

NoDuplicateListings(ls) ==
    \A i, k \in DOMAIN ls : ls[i] = ls[k] => i = k

\* C9: no two listing rows share a portal_job_id; a call for a portal_job_id
\* that has a row takes that row, adds no listing row, and its application
\* row refers to the row of that portal_job_id.
C9_UpsertByNaturalKey ==
    [][/\ NoDuplicateListings(listings')
       /\ \A p \in Procs :
            /\ (/\ pc[p] = "get_listing"
                /\ pc'[p] # "get_listing"
                /\ UniqueViolation(listings, CurrentJob(p).portal_job_id)) =>
                   /\ pc'[p] = "add_application"
                   /\ listing'[p] \in DOMAIN listings
                   /\ listings[listing'[p]] = CurrentJob(p).portal_job_id
                   /\ listings' = listings
            /\ (/\ pc[p] = "add_application"
                /\ pc'[p] # "add_application") =>
                   /\ listings' = listings
                   /\ Len(applications') = Len(applications) + 1
                   /\ listings[applications'[Len(applications')].job_id]
                          = CurrentJob(p).portal_job_id]_vars

C9_Witness ==
    /\ Len(listings) = 1
    /\ \E i, k \in DOMAIN applications :
        /\ i < k
        /\ applications[i].job_id = applications[k].job_id

\* C10: no portal job and candidate has two application rows with status
\* applied or interview_received.
C10_OneActiveApplicationPerPair ==
    \A portal_job_id \in PortalIds, c \in Candidates :
        Cardinality(RowsFor(portal_job_id, c,
                            {"applied", "interview_received"})) <= 1

\* the duplicate check was the last call and the ledger is as it read it
AskedDuplicate ==
    /\ query.fn = "check_duplicate_application"
    /\ query.passed = "portal_job_id"
    /\ query.at = Len(applications)

C12_DuplicateByInternalId ==
    ( /\ query.fn = "check_duplicate_application"
      /\ query.passed = "id"
      /\ query.at = Len(applications)
      /\ \E i \in DOMAIN applications :
            /\ applications[i].job_id = query.portal_job_id
            /\ applications[i].candidate_id = query.candidate_id
            /\ applications[i].status = "applied" )
    => answer

\* a capacity method was the last call and the ledger is as it read it
Asked(fn) == query.fn = fn /\ query.at = Len(applications)

\* C13: the engine built from app.config has a daily limit of 20: with 20
\* applied rows today can_apply_today() is false and
\* get_remaining_applications_today() is 0.
C13_LimitIsTwenty ==
    get_daily_application_count(applications) >= 20 =>
        /\ Asked("can_apply_today") => answer = FALSE
        /\ Asked("get_remaining_applications_today") => answer = 0

\* C14: get_remaining_applications_today() is max(0, daily_limit - count),
\* never negative, and can_apply_today() is true exactly when it is positive.
C14_RemainingIsClampedDifference ==
    LET count == Cardinality({i \in DOMAIN applications :
                                 applications[i].status = "applied"})
        remaining == IF daily_limit > count THEN daily_limit - count ELSE 0
    IN  /\ Asked("get_remaining_applications_today") =>
              answer = remaining /\ answer >= 0
        /\ Asked("can_apply_today") => (answer <=> remaining > 0)

C14_Witness ==
    /\ Asked("get_remaining_applications_today")
    /\ get_daily_application_count(applications) > daily_limit
    /\ answer = 0

\* C15: evaluate_job decides 'apply' exactly when the score reaches the
\* threshold and passes_threshold says the same; a job of a batch that was
\* evaluated below the threshold is never submitted and its result is
\* 'skipped' with the score and the analysis attached.
C15_ThresholdDecision ==
    /\ query.fn = "evaluate_job" =>
          /\ answer.decision = "apply" <=> query.job.score >= MatchThreshold
          /\ answer.decision \in {"apply", "skip"}
          /\ answer.passes_threshold <=> answer.decision = "apply"
    /\ \A p \in Procs : \A i \in DOMAIN results[p] :
          LET r == results[p][i] IN
          r.reason \notin {LimitReason, DuplicateReason} =>
              IF r.job.score >= MatchThreshold
              THEN r.status # "skipped" /\ submitted[p][i] # "none"
              ELSE /\ r.status = "skipped"
                   /\ submitted[p][i] = "none"
                   /\ r.match_score = r.job.score
                   /\ r.analysis = Analysis(r.job)
                   /\ r.application_id = 0

C15_Witness ==
    /\ query.fn = "evaluate_job"
    /\ answer.decision = "skip"
    /\ \E i \in DOMAIN results[1] :
          /\ results[1][i].reason = ThresholdReason
          /\ results[1][i].job.score < MatchThreshold
    /\ \E i \in DOMAIN results[1] : results[1][i].status = "applied"

\* evaluate_job was the last call, on the job dictionary recorded in query
Evaluated == query.fn = "evaluate_job_data"

ScoreWith(job, adjustment) ==
    LET skills == parse_job_description(job.description, job.required_skills)
        n == Len(skills)
        raw == SumSeq([i \in DOMAIN skills |-> skill_similarity(skills[i])])
                  + adjustment * n
    IN  IF raw >= 100 * n THEN 100
        ELSE IF raw <= 0 THEN 0
        ELSE CHOOSE v \in 0..100 : n * v <= raw /\ raw < n * (v + 1)

\* a skill was extracted from the job dictionary
HasSkills(job) ==
    \/ job.required_skills # <<>>
    \/ keywords_in(job.description) # <<>>

\* C17: the score is a whole number within 0..100: the mean of the skill
\* similarities plus the experience adjustment, clamped to that range.
C17_ScoreClamped ==
    Evaluated =>
        /\ answer.match_score \in 0..100
        /\ HasSkills(query.job_data) =>
              answer.match_score =
                  ScoreWith(query.job_data,
                            experience_bonus(query.job_data.experience_required))

C17_Witness ==
    /\ Evaluated
    /\ query.job_data.description = ""
    /\ query.job_data.required_skills = <<"kubernetes.">>
    /\ query.job_data.experience_required = <<"4">>
    /\ answer.match_score = 100

\* C18: a job with no extractable skill scores exactly 60 with empty matched
\* and missing lists, whatever its experience string.
C18_NoSkillsScoresSixty ==
    (Evaluated /\ ~HasSkills(query.job_data)) =>
        /\ answer.match_score = 60
        /\ answer.analysis.matched_skills = <<>>
        /\ answer.analysis.missing_skills = <<>>

C18_Witness ==
    /\ Evaluated
    /\ query.job_data.description = "Test"
    /\ query.job_data.required_skills = <<>>
    /\ query.job_data.experience_required = <<"7">>
    /\ answer.match_score = 60

\* C19: for the experience string "6-8 years" the score carries the -10
\* adjustment on the mean.
C19_SixToEightMinusTen ==
    ( /\ Evaluated
      /\ HasSkills(query.job_data)
      /\ query.job_data.experience_required = SixToEightYears )
    => answer.match_score = ScoreWith(query.job_data, -10)

\* C19 amended: for the experience string "6-8 years" the score carries the
\* +5 adjustment on the mean, 6 being the first integer of the string.
C19_SixToEightPlusFive ==
    ( /\ Evaluated
      /\ HasSkills(query.job_data)
      /\ query.job_data.experience_required = SixToEightYears )
    => answer.match_score = ScoreWith(query.job_data, 5)

C19_Witness ==
    /\ Evaluated
    /\ query.job_data.experience_required = SixToEightYears
    /\ query.job_data.description = ""
    /\ query.job_data.required_skills = <<"Python", "cobol">>
    /\ answer.match_score = 75

RECURSIVE Pow10(_)
Pow10(n) == IF n = 0 THEN 1 ELSE 10 * Pow10(n - 1)

\* the first integer written in a string: the digits from the first digit
\* up to the next character that is none; -1 when the string has no digit
FirstInteger(str) ==
    LET digits == {i \in DOMAIN str : str[i] \in DOMAIN DigitValue} IN
    IF digits = {} THEN -1
    ELSE LET first == CHOOSE i \in digits : \A k \in digits : i <= k
             last == CHOOSE j \in first..Len(str) :
                        /\ \A k \in first..j : k \in digits
                        /\ j + 1 \notin digits
         IN  SumSeq([k \in 1..(last - first + 1) |->
                        DigitValue[str[first + k - 1]]
                            * Pow10(last - first + 1 - k)])

\* the adjustment the first integer n of the experience string stands for
Adjustment(str) ==
    LET n == FirstInteger(str) IN
    IF n = -1 THEN 0
    ELSE IF n <= 4 THEN 10
    ELSE IF n >= 5 /\ n <= 6 THEN 5
    ELSE -10

\* C20: the adjustment depends on the first integer n of the experience
\* string only: +10 for n <= 4, +5 for n in 5..6, -10 for n > 6, 0 without
\* an integer; the score is the mean plus the adjustment within 0..100.
C20_AdjustmentByFirstInteger ==
    (Evaluated /\ HasSkills(query.job_data)) =>
        answer.match_score =
            ScoreWith(query.job_data,
                      Adjustment(query.job_data.experience_required))

C20_Witness ==
    /\ Evaluated
    /\ query.job_data.description = ""
    /\ query.job_data.required_skills = <<"cobol">>
    /\ query.job_data.experience_required = <<"-", "4", "6">>
    /\ answer.match_score = 30

\* C21: the extracted skills are the deduplicated union of the explicit
\* skills and the keywords of the description, so a skill listed and
\* mentioned is scored once: when every explicit skill is matched and the
\* description mentions only explicit skills, matched_skills has one entry
\* per explicit skill and missing_skills is empty; the job of the scenario
\* (Python, Django, REST API) has 3 entries and scores at least 90.
C21_ListedAndMentionedScoredOnce ==
    LET job == query.job_data
        explicit == Range(job.required_skills)
    IN  ( /\ Evaluated
          /\ job.description # ""
          /\ explicit # {}
          /\ \A sk \in explicit : skill_similarity(sk) >= 70
          /\ \A kw \in Range(keywords_in(job.description)) :
                \E sk \in explicit : Lower(sk) = kw )
        => /\ Len(answer.analysis.matched_skills) = Cardinality(explicit)
           /\ answer.analysis.missing_skills = <<>>
           /\ job = ExactSkillMatchJob =>
                 /\ Len(answer.analysis.matched_skills) = 3
                 /\ answer.match_score >= 90

\* the sum of one counter over the update_daily_stats calls made
RECURSIVE SumScraped(_)
SumScraped(calls) ==
    IF calls = <<>> THEN 0 ELSE Head(calls).jobs_scraped + SumScraped(Tail(calls))
RECURSIVE SumMatched(_)
SumMatched(calls) ==
    IF calls = <<>> THEN 0 ELSE Head(calls).jobs_matched + SumMatched(Tail(calls))
RECURSIVE SumApplied(_)
SumApplied(calls) ==
    IF calls = <<>> THEN 0 ELSE Head(calls).jobs_applied + SumApplied(Tail(calls))

\* every call made has returned
StatsQuiet == \A p \in Procs : stats_call[p].pc = "idle"

\* one row for the day, holding the sums of the arguments of all calls
OneRowOfSums ==
    /\ Len(daily_logs) = 1
    /\ daily_logs[1].jobs_scraped = SumScraped(stats_calls)
    /\ daily_logs[1].jobs_matched = SumMatched(stats_calls)
    /\ daily_logs[1].jobs_applied = SumApplied(stats_calls)

\* C22: after any sequence of update_daily_stats calls on one date there is
\* exactly one row for the date, each counter is the sum of the arguments
\* of the calls, and no counter decreases from one call to the next.
C22_StatsAccumulate ==
    [][ /\ (StatsQuiet /\ stats_calls # <<>>)' => OneRowOfSums'
        /\ (daily_logs # <<>>) =>
              /\ Len(daily_logs') = 1
              /\ daily_logs'[1].jobs_scraped >= daily_logs[1].jobs_scraped
              /\ daily_logs'[1].jobs_matched >= daily_logs[1].jobs_matched
              /\ daily_logs'[1].jobs_applied >= daily_logs[1].jobs_applied ]_vars

C22_Witness ==
    /\ StatsQuiet
    /\ Len(stats_calls) = MaxStatsCalls
    /\ Len(daily_logs) = 1
    /\ daily_logs[1].jobs_applied = SumApplied(stats_calls)
    /\ daily_logs[1].jobs_applied > stats_calls[Len(stats_calls)].jobs_applied
    /\ stats_calls[Len(stats_calls)].jobs_applied > 0

\* C28: concurrent update_daily_stats calls on one date lose no update and
\* raise no error: once they returned there is exactly one row and each
\* counter is the sum of the arguments of all calls.
C28_ConcurrentStatsLoseNothing ==
    (StatsQuiet /\ stats_calls # <<>>) =>
        /\ OneRowOfSums
        /\ \A p \in Procs : stats_call[p].raised = ""

\* C23: a write conflict met while process_job_batch records an application
\* (the listing was inserted by another run after this run's query) gives
\* the job the disposition 'skipped', not 'error'.
C23_WriteConflictSkipped ==
    \A p \in Procs : \A i \in DOMAIN results[p] :
        (op[p] = "batch" /\ results[p][i].reason = IntegrityErrorReason)
            => results[p][i].status = "skipped"

\* remaining capacity the run of p captured when it started
CapacityCaptured(p) ==
    LET count == Cardinality({i \in 1..started_at[p] :
                                 applications[i].status = "applied"})
    IN  IF daily_limit > count THEN daily_limit - count ELSE 0

\* C24: capacity exhaustion is terminal within a batch: after a job skipped
\* with the daily-limit reason every later job of the batch is skipped with
\* that reason, without duplicate check, evaluation or submission, and the
\* 'applied' dispositions of the batch never exceed the capacity captured
\* at its start.
C24_ExhaustionTerminal ==
    \A p \in Procs :
        op[p] = "batch" =>
            /\ \A i, j \in DOMAIN results[p] :
                  (i < j /\ results[p][i].reason = LimitReason) =>
                      /\ results[p][j].status = "skipped"
                      /\ results[p][j].reason = LimitReason
                      /\ results[p][j].match_score = NoEvaluation.match_score
                      /\ submitted[p][j] = "none"
            /\ Cardinality({i \in DOMAIN results[p] :
                               results[p][i].status = "applied"})
                  <= CapacityCaptured(p)

C24_Witness ==
    /\ op[1] = "batch"
    /\ Len(results[1]) >= 3
    /\ results[1][Len(results[1]) - 2].status = "applied"
    /\ results[1][Len(results[1]) - 1].reason = LimitReason
    /\ results[1][Len(results[1])].reason = LimitReason
    /\ results[1][Len(results[1])].job.score < MatchThreshold

\* C25: an application create_application records is counted for the
\* current local date right away, at every offset between the local clock
\* and UTC, so sequential batches on one local date emit at most
\* daily_limit 'applied' dispositions in total.
C25_SequentialBatchesRespectCap ==
    /\ \A i \in DOMAIN applications :
          applications[i].application_date = local_today
    /\ Cardinality({i \in DOMAIN applications :
                       applications[i].status = "applied"}) <= daily_limit

\* C26: a status change from 'applied' to 'interview_received' or
\* 'rejected' never raises the remaining capacity of the day: the
\* applications submitted on one day stay at most daily_limit whatever
\* status updates happen between batches.
C26_StatusUpdateKeepsCap ==
    Cardinality({i \in DOMAIN applications :
                    applications[i].application_date = local_today})
        <= daily_limit

\* C27: every submission a batch performs is recorded: the executor is
\* never invoked for a job without portal_job_id, and a job that was
\* submitted has an 'applied' disposition with its application row.
C27_SubmittedIsRecorded ==
    \A p \in Procs :
        op[p] = "batch" =>
            /\ \A i \in DOMAIN jobs[p] :
                  submitted[p][i] # "none" => jobs[p][i].portal_job_id # NoId
            /\ \A i \in DOMAIN results[p] :
                  submitted[p][i] = "success" =>
                      /\ results[p][i].status = "applied"
                      /\ results[p][i].application_id \in DOMAIN applications
                      /\ applications[results[p][i].application_id].status
                            = "applied"

\* the application rows the pipeline run created so far, and their number
PipelineRows ==
    IF pipeline.pc = "idle" THEN {}
    ELSE (pipeline.created_from + 1)..Len(applications)

PipelineCreated == Cardinality(PipelineRows)

\* C29: one pipeline run creates at most min(remaining capacity it read from
\* the engine, its daily_limit) application rows and none before it read
\* the capacity, creates at most one row per portal_job_id, and when the
\* capacity it read is 0 it creates none and ends with a 'complete' event
\* whose applied count is 0.
C29_PipelineRunWithinLimit ==
    /\ pipeline.remaining = -1 => PipelineCreated = 0
    /\ pipeline.remaining # -1 =>
           PipelineCreated <= Min(pipeline.remaining, pipeline.daily_limit)
    /\ \A i, j \in PipelineRows :
           i < j => listings[applications[i].job_id]
                        # listings[applications[j].job_id]
    /\ pipeline.pc = "done" /\ pipeline.remaining = 0 =>
           /\ PipelineCreated = 0
           /\ pipeline.event = [type |-> "complete", applied |-> 0]

\* a finished run that read a capacity below its daily_limit, found more
\* matching jobs than that and created exactly `remaining` rows
C29_Witness ==
    /\ pipeline.pc = "done"
    /\ pipeline.event.type = "complete"
    /\ pipeline.remaining >= 1
    /\ pipeline.remaining < pipeline.daily_limit
    /\ pipeline.matched > pipeline.remaining
    /\ PipelineCreated = pipeline.remaining

\* the job URLs on which an application was actually submitted: an attempt
\* ended with status 'applied_click' or 'applied_submitted'
SubmittedUrls ==
    {url \in DOMAIN attempts :
        \E i \in DOMAIN attempts[url] :
            attempts[url][i] \in {"applied_click", "applied_submitted"}}

\* C30: after any number of runs of the daily apply script on one date the
\* number of job URLs on which an application was actually submitted is at
\* most DAILY_LIMIT, and no URL is attempted twice.
C30_DailyLimitAcrossRuns ==
    /\ Cardinality(SubmittedUrls) <= DAILY_LIMIT
    /\ \A url \in DOMAIN attempts : Len(attempts[url]) <= 1
====
